---- MODULE Spec2Model ----
(***************************************************************************)
(* Model of the consortium bid simulation calculator                       *)
(* (src/src/calculations/simulation_calculator.py) and of the validated    *)
(* input contract SimulationInput (src/src/db/data_models.py).             *)
(*                                                                         *)
(* Numbers are exact rationals <<n, d>> with d > 0 in lowest terms.  The   *)
(* source computes in binary double precision; the model carries the exact *)
(* value of every expression, so an equality of the model is an equality   *)
(* of the source up to floating-point rounding.  <<0, 0>> marks the value  *)
(* of a division whose divisor is zero (Python raises ZeroDivisionError).  *)
(***************************************************************************)
EXTENDS Integers, Sequences, FiniteSets, TLC

\* ------------------------------------------------------------------------
\* Bounds of the explored input space
\* ------------------------------------------------------------------------
MaxPrazo == 3
MaxQtd == 2
MaxCalls == 3

\* ------------------------------------------------------------------------
\* Exact rational arithmetic
\* ------------------------------------------------------------------------
Abs(x) == IF x < 0 THEN -x ELSE x

RECURSIVE GCD(_, _)
GCD(a, b) == IF b = 0 THEN a ELSE GCD(b, a % b)

NaR == <<0, 0>>
IsNaR(a) == a[2] = 0

Norm(n, d) ==
    LET g == GCD(Abs(n), Abs(d))
        s == IF d < 0 THEN -1 ELSE 1
    IN  <<s * (n \div g), s * (d \div g)>>

R(i) == <<i, 1>>
Zero == R(0)
One == R(1)

RAdd(a, b) ==
    IF IsNaR(a) \/ IsNaR(b) THEN NaR
    ELSE LET g == GCD(a[2], b[2])
             l == (a[2] \div g) * b[2]
         IN  Norm(a[1] * (l \div a[2]) + b[1] * (l \div b[2]), l)

RNeg(a) == <<-a[1], a[2]>>
RSub(a, b) == RAdd(a, RNeg(b))

RMul(a, b) ==
    IF IsNaR(a) \/ IsNaR(b) THEN NaR
    ELSE IF a[1] = 0 \/ b[1] = 0 THEN Zero
    ELSE LET g1 == GCD(Abs(a[1]), b[2])
             g2 == GCD(Abs(b[1]), a[2])
         IN  <<(a[1] \div g1) * (b[1] \div g2), (a[2] \div g2) * (b[2] \div g1)>>

\* a / b; a zero divisor yields NaR (ZeroDivisionError in the source)
RDiv(a, b) ==
    IF IsNaR(a) \/ IsNaR(b) \/ b[1] = 0 THEN NaR
    ELSE IF b[1] < 0 THEN RMul(a, <<-b[2], -b[1]>>)
    ELSE RMul(a, <<b[2], b[1]>>)

RLt(a, b) == RSub(a, b)[1] < 0
RLe(a, b) == RSub(a, b)[1] <= 0
RGt(a, b) == RLt(b, a)

\* int(x): truncation towards zero
IntOf(a) == IF a[1] >= 0 THEN a[1] \div a[2] ELSE -((-a[1]) \div a[2])

\* variant of np.round that sends an exact tie upwards
np_round_HalfUp(a) ==
    IF IsNaR(a) THEN NaR
    ELSE LET q == a[1] \div a[2]
             r == a[1] % a[2]
         IN  IF 2 * r < a[2] THEN R(q) ELSE R(q + 1)

\* np.round(x, 0): nearest integer, an exact tie goes to the even integer
np_round(a) ==
    IF IsNaR(a) THEN NaR
    ELSE LET q == a[1] \div a[2]
             r == a[1] % a[2]
         IN  IF 2 * r < a[2] THEN R(q)
             ELSE IF 2 * r > a[2] THEN R(q + 1)
             ELSE IF q % 2 = 0 THEN R(q) ELSE R(q + 1)

\* ------------------------------------------------------------------------
\* config.py: business constants
\* ------------------------------------------------------------------------
TAXA_SEGURO_AUTO == <<599, 1000000>>
TAXA_SEGURO_IMOVEL == <<49, 125000>>

\* ------------------------------------------------------------------------
\* The parameter map handed to the calculator.
\* Numeric entries are rationals, the opcao_* entries plain integers.
\* `anomaly` names at most one key whose entry is absent or is not a usable
\* number: "missing" (no such key), "None", "text" (not parseable as a
\* number) or "unrepresentable" (float(10**400), int(float('inf'))).
\* ------------------------------------------------------------------------
NoAnomaly == [key |-> "", kind |-> "ok"]

\* inputs[key] / inputs.get(key, default)
Get(inputs, key, default) ==
    IF inputs.anomaly.key = key /\ inputs.anomaly.kind = "missing"
    THEN default ELSE inputs[key]

\* exception raised by float(inputs[key]) or int(inputs[key]) (required)
\* and by float(inputs.get(key, d)) or int(inputs.get(key, d)) (optional)
ConvError(inputs, key, required) ==
    IF inputs.anomaly.key # key THEN "none"
    ELSE CASE inputs.anomaly.kind = "missing" ->
                  (IF required THEN "KeyError" ELSE "none")
           [] inputs.anomaly.kind = "None" -> "TypeError"
           [] inputs.anomaly.kind = "text" -> "ValueError"
           [] inputs.anomaly.kind = "unrepresentable" -> "OverflowError"
           [] OTHER -> "none"

FirstError(errs) ==
    LET bad == {i \in 1..Len(errs) : errs[i] # "none"}
    IN  IF bad = {} THEN "none"
        ELSE errs[CHOOSE i \in bad : \A j \in bad : i <= j]

\* simulation_calculator.py lines 32-35
EssentialUnpackError(inputs) ==
    FirstError(<<ConvError(inputs, "valor_credito", TRUE),
                 ConvError(inputs, "prazo_meses", TRUE),
                 ConvError(inputs, "taxa_administracao_total", TRUE),
                 ConvError(inputs, "assembleia_atual", FALSE)>>)

\* simulation_calculator.py lines 37-40: TRUE when a ValueError is raised
EssentialInvalid(valor_credito, prazo_meses, taxa_administracao_total, assembleia_atual) ==
    \/ RLe(valor_credito, Zero) \/ prazo_meses <= 0 \/ RLt(taxa_administracao_total, Zero)
    \/ assembleia_atual > prazo_meses

\* simulation_calculator.py lines 45-50
OptionalUnpackError(inputs) ==
    FirstError(<<ConvError(inputs, "percentual_lance_ofertado", FALSE),
                 ConvError(inputs, "percentual_lance_embutido", FALSE),
                 ConvError(inputs, "qtd_parcelas_lance_ofertado", FALSE),
                 ConvError(inputs, "TAXA_SEGURO_AUTO", TRUE),
                 ConvError(inputs, "TAXA_SEGURO_IMOVEL", TRUE)>>)

\* the local variables bound by lines 32-50 when no conversion fails
Unpack(inputs) ==
    [valor_credito |-> inputs.valor_credito,
     prazo_meses |-> IntOf(inputs.prazo_meses),
     taxa_administracao_total |-> inputs.taxa_administracao_total,
     assembleia_atual |-> IntOf(Get(inputs, "assembleia_atual", R(1))),
     opcao_plano_light |-> Get(inputs, "opcao_plano_light", 1),
     opcao_seguro_prestamista |-> Get(inputs, "opcao_seguro_prestamista", 0),
     percentual_lance_ofertado |-> Get(inputs, "percentual_lance_ofertado", Zero),
     percentual_lance_embutido |-> Get(inputs, "percentual_lance_embutido", Zero),
     qtd_parcelas_lance_ofertado |-> IntOf(Get(inputs, "qtd_parcelas_lance_ofertado", Zero)),
     opcao_diluir_lance |-> Get(inputs, "opcao_diluir_lance", 1),
     TAXA_SEGURO_AUTO |-> inputs.TAXA_SEGURO_AUTO,
     TAXA_SEGURO_IMOVEL |-> inputs.TAXA_SEGURO_IMOVEL]

\* ------------------------------------------------------------------------
\* The computation, simulation_calculator.py lines 52-120
\* ------------------------------------------------------------------------
\* variant of lines 62-63 whose default for an unknown option is 0
mapa_plano_light_NoDefault(opcao_plano_light) ==
    CASE opcao_plano_light = 1 -> One
      [] opcao_plano_light = 2 -> <<1, 2>>
      [] opcao_plano_light = 3 -> <<3, 5>>
      [] opcao_plano_light = 4 -> <<7, 10>>
      [] opcao_plano_light = 5 -> <<4, 5>>
      [] opcao_plano_light = 6 -> <<9, 10>>
      [] OTHER -> Zero

\* lines 62-63: mapa_plano_light.get(opcao_plano_light, 1.0)
mapa_plano_light(opcao_plano_light) ==
    CASE opcao_plano_light = 1 -> One
      [] opcao_plano_light = 2 -> <<1, 2>>
      [] opcao_plano_light = 3 -> <<3, 5>>
      [] opcao_plano_light = 4 -> <<7, 10>>
      [] opcao_plano_light = 5 -> <<4, 5>>
      [] opcao_plano_light = 6 -> <<9, 10>>
      [] OTHER -> One

\* variant of lines 59-60 and 98-99 that compares with >= instead of ==
Flag_AtLeast(opcao, k) == IF opcao >= k THEN 1 ELSE 0

\* lines 59-60 and 98-99: 1 if opcao == k else 0
Flag(opcao, k) == IF opcao = k THEN 1 ELSE 0

\* variant of lines 67-68 and 116-117 that charges whatever the flag is
ValorSeguro_Unflagged(TAXA, base, flag) == RMul(TAXA, base)

\* lines 67-68 and 116-117: (TAXA * base) * flag
ValorSeguro(TAXA, base, flag) ==
    IF flag = 0 THEN Zero ELSE RMul(RMul(TAXA, base), R(flag))

\* variant of lines 76-80 that guards only a negative remaining term
TaxaPosAssembleia_StrictGuard(saldo_devedor_faturado_inicial, prazo_restante_inicial) ==
    IF prazo_restante_inicial < 0 THEN Zero
    ELSE RDiv(saldo_devedor_faturado_inicial, R(prazo_restante_inicial))

\* lines 76-80
TaxaPosAssembleia(saldo_devedor_faturado_inicial, prazo_restante_inicial) ==
    IF prazo_restante_inicial <= 0 THEN Zero
    ELSE RDiv(saldo_devedor_faturado_inicial, R(prazo_restante_inicial))

\* variant of line 85 that sizes the offered bid by its percentage
ValorLanceOfertadoTotal_ByPercent(qtd_parcelas_lance_ofertado, valor_parcela_base_pos_assembleia, percentual_lance_ofertado, valor_credito) ==
    RMul(valor_credito, percentual_lance_ofertado)

\* line 85: the offered bid is sized by the number of installments alone
ValorLanceOfertadoTotal(qtd_parcelas_lance_ofertado, valor_parcela_base_pos_assembleia, percentual_lance_ofertado, valor_credito) ==
    RMul(R(qtd_parcelas_lance_ofertado), valor_parcela_base_pos_assembleia)

\* variant of lines 87-90 that sizes the embedded bid on the whole credit
QtdEmbutidoFloat_WholeCredit(valor_credito, percentual_lance_embutido, valor_parcela_base_pos_assembleia) ==
    IF RGt(valor_parcela_base_pos_assembleia, Zero)
    THEN RDiv(valor_credito, valor_parcela_base_pos_assembleia)
    ELSE Zero

\* lines 87-90
QtdEmbutidoFloat(valor_credito, percentual_lance_embutido, valor_parcela_base_pos_assembleia) ==
    IF RGt(valor_parcela_base_pos_assembleia, Zero)
    THEN RDiv(RMul(valor_credito, percentual_lance_embutido), valor_parcela_base_pos_assembleia)
    ELSE Zero

\* variant of line 108 that scales the offered-bid term by the credit
ValorPagoTotalComLance_Scaled(qtd_parcelas_lance_ofertado, taxa_amortizacao_mensal_pos_assembleia, valor_pago_ate_assembleia, valor_credito) ==
    RAdd(RMul(RMul(R(qtd_parcelas_lance_ofertado), taxa_amortizacao_mensal_pos_assembleia), valor_credito),
         RMul(valor_pago_ate_assembleia, valor_credito))

\* variant of line 108 that leaves the offered bid out of the amount paid
ValorPagoTotalComLance_NoBidTerm(qtd_parcelas_lance_ofertado, taxa_amortizacao_mensal_pos_assembleia, valor_pago_ate_assembleia, valor_credito) ==
    RMul(valor_pago_ate_assembleia, valor_credito)

\* line 108
ValorPagoTotalComLance(qtd_parcelas_lance_ofertado, taxa_amortizacao_mensal_pos_assembleia, valor_pago_ate_assembleia, valor_credito) ==
    RAdd(RMul(R(qtd_parcelas_lance_ofertado), taxa_amortizacao_mensal_pos_assembleia),
         RMul(valor_pago_ate_assembleia, valor_credito))

\* lines 111-114
NovaParcelaBase(saldo_devedor_base_final, prazo_restante_final) ==
    IF RGt(prazo_restante_final, Zero)
    THEN RDiv(saldo_devedor_base_final, prazo_restante_final)
    ELSE Zero

\* variant of line 119 that leaves the property insurance out
NovaParcelaPosLance_NoImovel(nova_parcela_base, valor_seguro_auto_final, valor_seguro_imovel_final) ==
    RAdd(nova_parcela_base, valor_seguro_auto_final)

\* line 119
NovaParcelaPosLance(nova_parcela_base, valor_seguro_auto_final, valor_seguro_imovel_final) ==
    RAdd(RAdd(nova_parcela_base, valor_seguro_auto_final), valor_seguro_imovel_final)

\* variant of line 120 with the operands exchanged
CreditoDisponivel_Swapped(credito_contratado, valor_lance_embutido) ==
    RSub(valor_lance_embutido, credito_contratado)

\* line 120
CreditoDisponivel(credito_contratado, valor_lance_embutido) ==
    RSub(credito_contratado, valor_lance_embutido)

\* every local variable of lines 52-120, for the unpacked values v
Compute(v) ==
    LET \* 3. Calculos Iniciais
        credito_contratado == v.valor_credito
        fator_taxa_total == RAdd(One, v.taxa_administracao_total)
        taxa_amortizacao_mensal == RDiv(fator_taxa_total, R(v.prazo_meses))
        valor_total_a_pagar == RMul(v.valor_credito, fator_taxa_total)
        \* 4. Seguro e Plano Light
        flag_seguro_auto == Flag(v.opcao_seguro_prestamista, 1)
        flag_seguro_imovel == Flag(v.opcao_seguro_prestamista, 2)
        fator_plano_light == mapa_plano_light(v.opcao_plano_light)
        percentual_parcela_base == RMul(taxa_amortizacao_mensal, fator_plano_light)
        \* 5. Parcela Inicial
        valor_seguro_auto == ValorSeguro(v.TAXA_SEGURO_AUTO, valor_total_a_pagar, flag_seguro_auto)
        valor_seguro_imovel == ValorSeguro(v.TAXA_SEGURO_IMOVEL, valor_total_a_pagar, flag_seguro_imovel)
        valor_parcela_inicial ==
            RAdd(RAdd(RMul(v.valor_credito, percentual_parcela_base), valor_seguro_auto),
                 valor_seguro_imovel)
        \* 6. Calculos Pos-Assembleia (Pre-Lance)
        prazo_restante_inicial == v.prazo_meses - v.assembleia_atual
        valor_pago_ate_assembleia == RMul(R(v.assembleia_atual), percentual_parcela_base)
        saldo_devedor_faturado_inicial == RSub(fator_taxa_total, valor_pago_ate_assembleia)
        taxa_amortizacao_mensal_pos_assembleia ==
            TaxaPosAssembleia(saldo_devedor_faturado_inicial, prazo_restante_inicial)
        valor_parcela_base_pos_assembleia ==
            RMul(v.valor_credito, taxa_amortizacao_mensal_pos_assembleia)
        \* 7. Calculos do Lance
        valor_lance_ofertado_total ==
            ValorLanceOfertadoTotal(v.qtd_parcelas_lance_ofertado,
                                    valor_parcela_base_pos_assembleia,
                                    v.percentual_lance_ofertado, v.valor_credito)
        qtd_parcelas_lance_embutido_float ==
            QtdEmbutidoFloat(v.valor_credito, v.percentual_lance_embutido,
                             valor_parcela_base_pos_assembleia)
        qtd_parcelas_lance_embutido == np_round(qtd_parcelas_lance_embutido_float)
        valor_lance_embutido == RMul(qtd_parcelas_lance_embutido, valor_parcela_base_pos_assembleia)
        percentual_lance_recurso_proprio ==
            RSub(v.percentual_lance_ofertado, v.percentual_lance_embutido)
        valor_lance_recurso_proprio == RSub(valor_lance_ofertado_total, valor_lance_embutido)
        \* 8. Diluicao do Lance e Prazo Final
        flag_diluir_lance_sim == Flag(v.opcao_diluir_lance, 1)
        flag_diluir_lance_nao == Flag(v.opcao_diluir_lance, 3)
        parcelas_pagas_no_lance_embutido == RMul(qtd_parcelas_lance_embutido, R(flag_diluir_lance_sim))
        parcelas_pagas_no_lance_ofertado == v.qtd_parcelas_lance_ofertado * flag_diluir_lance_nao
        total_parcelas_pagas_no_lance ==
            RAdd(RAdd(R(v.assembleia_atual), parcelas_pagas_no_lance_embutido),
                 R(parcelas_pagas_no_lance_ofertado))
        prazo_restante_final == RSub(R(v.prazo_meses), total_parcelas_pagas_no_lance)
        \* 9. Saldo Devedor e Nova Parcela
        valor_pago_total_com_lance ==
            ValorPagoTotalComLance(v.qtd_parcelas_lance_ofertado,
                                   taxa_amortizacao_mensal_pos_assembleia,
                                   valor_pago_ate_assembleia, v.valor_credito)
        saldo_devedor_base_final == RSub(valor_total_a_pagar, valor_pago_total_com_lance)
        nova_parcela_base == NovaParcelaBase(saldo_devedor_base_final, prazo_restante_final)
        valor_seguro_auto_final ==
            ValorSeguro(v.TAXA_SEGURO_AUTO, saldo_devedor_base_final, flag_seguro_auto)
        valor_seguro_imovel_final ==
            ValorSeguro(v.TAXA_SEGURO_IMOVEL, saldo_devedor_base_final, flag_seguro_imovel)
        nova_parcela_pos_lance ==
            NovaParcelaPosLance(nova_parcela_base, valor_seguro_auto_final, valor_seguro_imovel_final)
        credito_disponivel == CreditoDisponivel(credito_contratado, valor_lance_embutido)
    IN  [credito_contratado |-> credito_contratado,
         fator_taxa_total |-> fator_taxa_total,
         taxa_amortizacao_mensal |-> taxa_amortizacao_mensal,
         valor_total_a_pagar |-> valor_total_a_pagar,
         flag_seguro_auto |-> flag_seguro_auto,
         flag_seguro_imovel |-> flag_seguro_imovel,
         fator_plano_light |-> fator_plano_light,
         percentual_parcela_base |-> percentual_parcela_base,
         valor_parcela_inicial |-> valor_parcela_inicial,
         prazo_restante_inicial |-> prazo_restante_inicial,
         valor_pago_ate_assembleia |-> valor_pago_ate_assembleia,
         taxa_amortizacao_mensal_pos_assembleia |-> taxa_amortizacao_mensal_pos_assembleia,
         valor_parcela_base_pos_assembleia |-> valor_parcela_base_pos_assembleia,
         valor_lance_ofertado_total |-> valor_lance_ofertado_total,
         qtd_parcelas_lance_embutido_float |-> qtd_parcelas_lance_embutido_float,
         qtd_parcelas_lance_embutido |-> qtd_parcelas_lance_embutido,
         valor_lance_embutido |-> valor_lance_embutido,
         percentual_lance_recurso_proprio |-> percentual_lance_recurso_proprio,
         valor_lance_recurso_proprio |-> valor_lance_recurso_proprio,
         flag_diluir_lance_sim |-> flag_diluir_lance_sim,
         flag_diluir_lance_nao |-> flag_diluir_lance_nao,
         total_parcelas_pagas_no_lance |-> total_parcelas_pagas_no_lance,
         prazo_restante_final |-> prazo_restante_final,
         valor_pago_total_com_lance |-> valor_pago_total_com_lance,
         saldo_devedor_base_final |-> saldo_devedor_base_final,
         nova_parcela_base |-> nova_parcela_base,
         valor_seguro_auto_final |-> valor_seguro_auto_final,
         valor_seguro_imovel_final |-> valor_seguro_imovel_final,
         nova_parcela_pos_lance |-> nova_parcela_pos_lance,
         credito_disponivel |-> credito_disponivel]

\* the divisions of lines 55, 80, 88 and 112: TRUE when one had a zero divisor
DivisionByZero(l) ==
    \/ IsNaR(l.taxa_amortizacao_mensal)
    \/ IsNaR(l.taxa_amortizacao_mensal_pos_assembleia)
    \/ IsNaR(l.qtd_parcelas_lance_embutido_float)
    \/ IsNaR(l.nova_parcela_base)

\* lines 122-136: the keys of the returned dict besides "status"
ResultFields ==
    {"credito_disponivel", "nova_parcela_pos_lance", "saldo_devedor_base_final",
     "valor_lance_recurso_proprio", "credito_contratado", "valor_parcela_inicial",
     "valor_lance_ofertado_total", "valor_lance_embutido", "total_parcelas_pagas_no_lance",
     "prazo_restante_final", "percentual_parcela_base", "percentual_lance_recurso_proprio"}

SuccessDict(l) ==
    [status |-> "success",
     credito_disponivel |-> l.credito_disponivel,
     nova_parcela_pos_lance |-> l.nova_parcela_pos_lance,
     saldo_devedor_base_final |-> l.saldo_devedor_base_final,
     valor_lance_recurso_proprio |-> l.valor_lance_recurso_proprio,
     credito_contratado |-> l.credito_contratado,
     valor_parcela_inicial |-> l.valor_parcela_inicial,
     valor_lance_ofertado_total |-> l.valor_lance_ofertado_total,
     valor_lance_embutido |-> l.valor_lance_embutido,
     total_parcelas_pagas_no_lance |-> l.total_parcelas_pagas_no_lance,
     prazo_restante_final |-> l.prazo_restante_final,
     percentual_parcela_base |-> l.percentual_parcela_base,
     percentual_lance_recurso_proprio |-> l.percentual_lance_recurso_proprio]

\* ------------------------------------------------------------------------
\* realizar_calculo_simulacao(inputs), lines 30-148
\* ------------------------------------------------------------------------
\* the exception raised inside the try block ("none": the return of line 122
\* is reached) together with the local variables bound at that point
TryBlock(inputs) ==
    LET v == Unpack(inputs)
        l == Compute(v)
    IN  IF EssentialUnpackError(inputs) # "none"
        THEN [exc |-> EssentialUnpackError(inputs), locals |-> << >>]
        ELSE IF EssentialInvalid(v.valor_credito, v.prazo_meses,
                                 v.taxa_administracao_total, v.assembleia_atual)
        THEN [exc |-> "ValueError", locals |-> << >>]
        ELSE IF OptionalUnpackError(inputs) # "none"
        THEN [exc |-> OptionalUnpackError(inputs), locals |-> << >>]
        ELSE IF DivisionByZero(l)
        THEN [exc |-> "ZeroDivisionError", locals |-> << >>]
        ELSE [exc |-> "none", locals |-> <<l>>]

\* variant of lines 137-148 without the final catch-all clause
ExceptClauses_NoCatchAll(exc) ==
    CASE exc \in {"ValueError", "TypeError"} ->
             [returned |-> [status |-> "error", message |-> "Erro nos dados de entrada"],
              level |-> "ERROR", raised |-> "none"]
      [] exc = "ZeroDivisionError" ->
             [returned |-> [status |-> "error", message |-> "Erro no calculo"],
              level |-> "ERROR", raised |-> "none"]
      [] exc = "KeyError" ->
             [returned |-> [status |-> "error", message |-> "Erro de configuracao"],
              level |-> "ERROR", raised |-> "none"]
      [] OTHER ->
             [returned |-> [status |-> "error", message |-> ""],
              level |-> "NONE", raised |-> exc]

\* lines 137-148: what each except clause logs, returns and lets escape
ExceptClauses(exc) ==
    CASE exc \in {"ValueError", "TypeError"} ->
             [returned |-> [status |-> "error", message |-> "Erro nos dados de entrada"],
              level |-> "ERROR", raised |-> "none"]
      [] exc = "ZeroDivisionError" ->
             [returned |-> [status |-> "error", message |-> "Erro no calculo"],
              level |-> "ERROR", raised |-> "none"]
      [] exc = "KeyError" ->
             [returned |-> [status |-> "error", message |-> "Erro de configuracao"],
              level |-> "ERROR", raised |-> "none"]
      [] OTHER ->
             [returned |-> [status |-> "error", message |-> "Ocorreu um erro inesperado"],
              level |-> "CRITICAL", raised |-> "none"]

\* ------------------------------------------------------------------------
\* SimulationInput(...), data_models.py lines 23-46
\* ------------------------------------------------------------------------
RequiredFields ==
    {"valor_credito", "prazo_meses", "taxa_administracao_total",
     "TAXA_SEGURO_AUTO", "TAXA_SEGURO_IMOVEL"}

\* lines 26-37: the fields of the object, absent optional ones at their default
Fields(inputs) ==
    [valor_credito |-> inputs.valor_credito,
     prazo_meses |-> inputs.prazo_meses,
     taxa_administracao_total |-> inputs.taxa_administracao_total,
     TAXA_SEGURO_AUTO |-> inputs.TAXA_SEGURO_AUTO,
     TAXA_SEGURO_IMOVEL |-> inputs.TAXA_SEGURO_IMOVEL,
     assembleia_atual |-> Get(inputs, "assembleia_atual", R(1)),
     opcao_plano_light |-> Get(inputs, "opcao_plano_light", 1),
     opcao_seguro_prestamista |-> Get(inputs, "opcao_seguro_prestamista", 0),
     percentual_lance_ofertado |-> Get(inputs, "percentual_lance_ofertado", Zero),
     percentual_lance_embutido |-> Get(inputs, "percentual_lance_embutido", Zero),
     qtd_parcelas_lance_ofertado |-> Get(inputs, "qtd_parcelas_lance_ofertado", Zero),
     opcao_diluir_lance |-> Get(inputs, "opcao_diluir_lance", 1)]

\* lines 39-46: the exception __post_init__ raises, "none" when it returns
post_init(self) ==
    IF RLe(self.valor_credito, Zero) \/ RLe(self.prazo_meses, Zero)
       \/ RLt(self.taxa_administracao_total, Zero)
    THEN "ValueError"
    ELSE IF RGt(self.assembleia_atual, self.prazo_meses)
    THEN "ValueError"
    ELSE IF RGt(self.percentual_lance_embutido, self.percentual_lance_ofertado)
    THEN "ValueError"
    ELSE "none"

\* a required field without a default that is not supplied: TypeError
SimulationInputError(inputs) ==
    IF inputs.anomaly.kind = "missing" /\ inputs.anomaly.key \in RequiredFields
    THEN "TypeError"
    ELSE post_init(Fields(inputs))

\* ------------------------------------------------------------------------
\* The explored parameter maps
\* ------------------------------------------------------------------------
\* Scenario "baseline" and scenario "full embedded bid"
Baseline ==
    [valor_credito |-> R(250000), prazo_meses |-> R(240),
     taxa_administracao_total |-> <<37, 200>>,
     assembleia_atual |-> R(1), opcao_plano_light |-> 1, opcao_seguro_prestamista |-> 0,
     percentual_lance_ofertado |-> <<3, 10>>, percentual_lance_embutido |-> Zero,
     qtd_parcelas_lance_ofertado |-> R(180), opcao_diluir_lance |-> 1,
     TAXA_SEGURO_AUTO |-> TAXA_SEGURO_AUTO, TAXA_SEGURO_IMOVEL |-> TAXA_SEGURO_IMOVEL,
     anomaly |-> NoAnomaly]

FullEmbedded ==
    [Baseline EXCEPT !.percentual_lance_embutido = <<3, 10>>,
                     !.qtd_parcelas_lance_ofertado = Zero]

\* parameter maps that satisfy the constructor's checks, every option crossed
GridInputs ==
    {g \in [valor_credito : {R(2)},
            prazo_meses : {R(p) : p \in 1..MaxPrazo},
            taxa_administracao_total : {Zero, <<1, 5>>},
            assembleia_atual : {R(a) : a \in 1..MaxPrazo},
            opcao_plano_light : 1..7,
            opcao_seguro_prestamista : 0..2,
            percentual_lance_ofertado : {Zero, <<3, 10>>},
            percentual_lance_embutido : {Zero, <<3, 10>>},
            qtd_parcelas_lance_ofertado : {R(q) : q \in 0..MaxQtd},
            opcao_diluir_lance : 1..3,
            TAXA_SEGURO_AUTO : {TAXA_SEGURO_AUTO},
            TAXA_SEGURO_IMOVEL : {TAXA_SEGURO_IMOVEL},
            anomaly : {NoAnomaly}] :
        /\ RLe(g.assembleia_atual, g.prazo_meses)
        /\ RLe(g.percentual_lance_embutido, g.percentual_lance_ofertado)}

\* parameter maps around the limits of every constraint of the data model
EdgeInputs ==
    [valor_credito : {R(-1), Zero, R(2)},
     prazo_meses : {Zero, <<5, 2>>, R(MaxPrazo)},
     taxa_administracao_total : {<<-1, 10>>, Zero},
     assembleia_atual : {Zero, R(1), R(MaxPrazo + 1)},
     opcao_plano_light : {2},
     opcao_seguro_prestamista : {0, 1},
     percentual_lance_ofertado : {<<-1, 10>>, Zero, <<3, 10>>},
     percentual_lance_embutido : {<<-1, 10>>, Zero, <<3, 10>>},
     qtd_parcelas_lance_ofertado : {R(-1), Zero},
     opcao_diluir_lance : {1, 3},
     TAXA_SEGURO_AUTO : {TAXA_SEGURO_AUTO},
     TAXA_SEGURO_IMOVEL : {TAXA_SEGURO_IMOVEL},
     anomaly : {NoAnomaly}]

ConvertedKeys ==
    {"valor_credito", "prazo_meses", "taxa_administracao_total", "assembleia_atual",
     "percentual_lance_ofertado", "percentual_lance_embutido",
     "qtd_parcelas_lance_ofertado", "TAXA_SEGURO_AUTO", "TAXA_SEGURO_IMOVEL"}

OptionKeys == {"opcao_plano_light", "opcao_seguro_prestamista", "opcao_diluir_lance"}

Anomalies ==
    [key : ConvertedKeys, kind : {"missing", "None", "text", "unrepresentable"}]
    \cup [key : OptionKeys, kind : {"missing"}]

\* parameter maps with one entry absent or not a usable number
AnomalousInputs ==
    {[b EXCEPT !.anomaly = a] :
        b \in {Baseline, [Baseline EXCEPT !.valor_credito = Zero]}, a \in Anomalies}

\* parameter maps whose bid is the whole credit, all of it embedded
WholeEmbeddedInputs ==
    {[g EXCEPT !.percentual_lance_ofertado = One, !.percentual_lance_embutido = One] :
        g \in {x \in GridInputs : /\ x.opcao_plano_light = 1
                                  /\ x.opcao_seguro_prestamista = 0
                                  /\ x.qtd_parcelas_lance_ofertado = Zero
                                  /\ x.percentual_lance_ofertado = Zero}}

Inputs ==
    {Baseline, FullEmbedded} \cup GridInputs \cup EdgeInputs \cup AnomalousInputs
    \cup WholeEmbeddedInputs

\* ------------------------------------------------------------------------
\* SimulatorPageService.run_simulation, simulator_page.py lines 79-135
\* ------------------------------------------------------------------------
\* Python's None as the value of a form field
None == << >>

\* line 86: the fields the form must have filled in
RunRequiredFields == {"valor_credito", "prazo_meses", "taxa_administracao_total"}

\* line 87: the required fields whose form value is None
MissingRequired(form_inputs) == {f \in RunRequiredFields : form_inputs[f] = None}

\* lines 97-100: x or default, None and 0 being the falsy numbers
OrDefault(x, default) == IF x = None \/ x = Zero THEN default ELSE x

\* lines 93-106: the keyword arguments handed to SimulationInput(...);
\* the form holds percentages, the object fractions, int() truncates
BuildSimulationInput(form_inputs) ==
    [valor_credito |-> form_inputs.valor_credito,
     prazo_meses |-> R(IntOf(form_inputs.prazo_meses)),
     taxa_administracao_total |-> RDiv(form_inputs.taxa_administracao_total, R(100)),
     percentual_lance_ofertado |->
         RDiv(OrDefault(form_inputs.percentual_lance_ofertado, Zero), R(100)),
     percentual_lance_embutido |->
         RDiv(OrDefault(form_inputs.percentual_lance_embutido, Zero), R(100)),
     qtd_parcelas_lance_ofertado |->
         R(IntOf(OrDefault(form_inputs.qtd_parcelas_lance_ofertado, Zero))),
     assembleia_atual |-> R(IntOf(OrDefault(form_inputs.assembleia_atual, One))),
     opcao_plano_light |-> form_inputs.opcao_plano_light,
     opcao_seguro_prestamista |-> form_inputs.opcao_seguro_prestamista,
     opcao_diluir_lance |-> form_inputs.opcao_diluir_lance,
     TAXA_SEGURO_AUTO |-> TAXA_SEGURO_AUTO,
     TAXA_SEGURO_IMOVEL |-> TAXA_SEGURO_IMOVEL]

\* A Python value with its type: a dict can be subscripted and has no
\* __dict__ attribute, a dataclass instance has __dict__ and no __getitem__.
DictValue(d) == [type |-> "dict", value |-> d]
ObjectValue(class, fields) == [type |-> class, value |-> fields]

\* lines 137-148: the error dict an exception turns into, and the log level
ErrorOutcome(exc) ==
    [returned |-> DictValue(ExceptClauses(exc).returned), level |-> ExceptClauses(exc).level]

\* lines 122-148: what the call returns after the try block ended as t
Outcome(t) ==
    IF t.exc = "none"
    THEN [returned |-> DictValue(SuccessDict(t.locals[1])), level |-> "NONE"]
    ELSE ErrorOutcome(t.exc)

\* realizar_calculo_simulacao(arg), lines 11-148, for an argument of either
\* type: line 32 subscripts it, which raises TypeError unless it is a dict
realizar_calculo_simulacao(arg) ==
    IF arg.type = "dict" THEN Outcome(TryBlock(arg.value)) ELSE ErrorOutcome("TypeError")

\* lines 118-122: the five metric caches cleared, in this order
MetricCaches ==
    <<"get_cached_general_metrics.clear", "get_cached_simulations_per_day.clear",
      "get_cached_credit_distribution.clear", "get_cached_simulations_by_consultant.clear",
      "get_cached_team_simulation_stats.clear">>

\* variant of the body that writes the audit event before calculating
RunBody_AuditBeforeCalculate ==
    <<"validate", "construct", "audit", "calculate", "persist", "toast",
      "invalidate", "return">>

\* lines 85-124: the statements of the try block in the order of the source
RunBody ==
    <<"validate", "construct", "calculate", "persist", "audit", "toast",
      "invalidate", "return">>

\* the frame of run_simulation before its first statement
RunFrame ==
    [sim_input |-> << >>, result |-> << >>, trace |-> << >>, exc |-> "none",
     returned |-> << >>]

\* One statement of the try block executed on the frame f.  trace records
\* every call that leaves the method, in the order it is made.
RunStatement(stmt, form_inputs, f) ==
    CASE stmt = "validate" ->
             \* lines 86-90
             IF MissingRequired(form_inputs) # {}
             THEN [f EXCEPT !.trace = Append(@, "st.error"),
                            !.returned = <<[kind |-> "None", value |-> << >>]>>]
             ELSE f
      [] stmt = "construct" ->
             \* lines 93-106
             IF post_init(BuildSimulationInput(form_inputs)) # "none"
             THEN [f EXCEPT !.exc = post_init(BuildSimulationInput(form_inputs))]
             ELSE [f EXCEPT !.sim_input =
                       <<ObjectValue("SimulationInput", BuildSimulationInput(form_inputs))>>]
      [] stmt = "calculate" ->
             \* line 109; a failing calculator logs before it returns
             IF f.sim_input = << >>
             THEN [f EXCEPT !.exc = "UnboundLocalError"]
             ELSE LET r == realizar_calculo_simulacao(f.sim_input[1])
                  IN  [f EXCEPT !.result = <<r.returned>>,
                                !.trace = @ \o (IF r.level = "NONE" THEN << >>
                                                ELSE <<"calculator.logger">>)
                                            \o <<"realizar_calculo_simulacao">>]
      [] stmt = "persist" ->
             \* line 112: the arguments are evaluated before sim_repo.log runs
             IF f.sim_input = << >> \/ f.result = << >>
             THEN [f EXCEPT !.exc = "UnboundLocalError"]
             ELSE IF f.result[1].type = "dict"
             THEN [f EXCEPT !.exc = "AttributeError"]
             ELSE [f EXCEPT !.trace = Append(@, "sim_repo.log")]
      [] stmt = "audit" ->
             \* line 113
             [f EXCEPT !.trace = Append(@, "audit_repo.log_event")]
      [] stmt = "toast" ->
             \* line 115
             [f EXCEPT !.trace = Append(@, "st.toast")]
      [] stmt = "invalidate" ->
             \* lines 118-122
             [f EXCEPT !.trace = @ \o MetricCaches]
      [] OTHER ->
             \* line 124
             IF f.result = << >>
             THEN [f EXCEPT !.exc = "UnboundLocalError"]
             ELSE [f EXCEPT !.returned = <<[kind |-> "result", value |-> f.result]>>]

\* the statement that follows stmt in the body
Successor(body, stmt) ==
    body[(CHOOSE k \in 1..(Len(body) - 1) : body[k] = stmt) + 1]

\* lines 126-135: what the except clauses send out before None is returned
RunExcept(exc) ==
    IF exc \in {"InvalidInputError", "ValueError", "CalculationError"}
    THEN <<"st.error">>
    ELSE <<"st.error", "logger.critical">>

\* the forms: each number field empty, at a limit or inside its range
FormInputs ==
    [cliente_nome : {"Cliente"},
     valor_credito : {None, Zero, R(2)},
     prazo_meses : {None, Zero, R(MaxPrazo)},
     taxa_administracao_total : {None, R(-10), R(20)},
     percentual_lance_ofertado : {None, R(30)},
     percentual_lance_embutido : {None, R(30), R(50)},
     qtd_parcelas_lance_ofertado : {None, R(1)},
     assembleia_atual : {None, Zero, R(1), R(MaxPrazo + 1)},
     opcao_plano_light : {1, 2},
     opcao_seguro_prestamista : {0},
     opcao_diluir_lance : {1, 3}]

\* ------------------------------------------------------------------------
\* Several calls of realizar_calculo_simulacao in progress at once.  Each
\* call has a frame of its own for its parameter and its local names (the
\* function body, lines 30-136, assigns local names only); the module-level
\* logger of line 9 is the one object every call shares.
\* ------------------------------------------------------------------------
\* the frame of a call at its entry
Frame(i) ==
    [inputs |-> i, pc |-> "start", v |-> << >>, l |-> << >>, exc |-> "none",
     ret |-> << >>]

\* reading a local name of call c
LoadLocal(frames, c, name) == frames[c][name]

\* variant in which an assignment binds a module-level name, one for all calls
StoreLocal_Global(frames, c, name, value) ==
    [d \in DOMAIN frames |-> [frames[d] EXCEPT ![name] = value]]

\* an assignment to a local name of call c
StoreLocal(frames, c, name, value) == [frames EXCEPT ![c][name] = value]

\* lines 32-50: what unpacking and validation raise, "none" if nothing
UnpackError(inputs) ==
    IF EssentialUnpackError(inputs) # "none" THEN EssentialUnpackError(inputs)
    ELSE IF EssentialInvalid(Unpack(inputs).valor_credito, Unpack(inputs).prazo_meses,
                             Unpack(inputs).taxa_administracao_total,
                             Unpack(inputs).assembleia_atual)
    THEN "ValueError"
    ELSE OptionalUnpackError(inputs)

\* a small valid parameter map
SmallInput ==
    [Baseline EXCEPT !.valor_credito = R(2), !.prazo_meses = R(MaxPrazo),
                     !.taxa_administracao_total = <<1, 5>>,
                     !.percentual_lance_embutido = <<3, 10>>,
                     !.qtd_parcelas_lance_ofertado = R(1)]

\* the parameter maps of the calls: two valid ones, one that fails
\* validation and one whose conversion fails
CallInputs ==
    {SmallInput,
     [SmallInput EXCEPT !.prazo_meses = R(MaxPrazo - 1)],
     [SmallInput EXCEPT !.valor_credito = Zero],
     [SmallInput EXCEPT !.anomaly = [key |-> "TAXA_SEGURO_AUTO", kind |-> "unrepresentable"]]}

\* ------------------------------------------------------------------------
\* State
\* ------------------------------------------------------------------------
VARIABLES
    inputs,       \* the parameters supplied by the caller
    pc,           \* per operation: "idle" before it ran, "done" after
    sim_input,    \* << >>, or <<obj>> for the constructed SimulationInput
    ctor_raised,  \* the exception SimulationInput(...) raised, "none" if none
    ret,          \* << >>, or <<dict>> for the calculator's return value
    raised,       \* the exception that left realizar_calculo_simulacao
    locals,       \* << >>, or <<frame>>: the calculator's locals at its return
    logged,       \* the levels of the records the calculator sent to its logger
    form_inputs,  \* the form handed to run_simulation
    run_pc,       \* "off", or the statement run_simulation is at, "except", "done"
    run_frame,    \* the locals of run_simulation, the calls it made, its return value
    frames,       \* << >>, or the frame of each call in progress
    manage_args,  \* << >>, or <<arguments>> of a call of can_manage_user
    manage_ret,   \* << >>, or <<value>> that call returned
    session,      \* st.session_state: a function from the keys present to values
    audit_log,    \* the audit events recorded, in order
    auth_last,    \* the last session operation, the session and events before it
    verified,     \* a verified login has happened and no logout after it
    user_team,    \* table users: user id -> team_id, None for no team
    team_supervisor, \* table teams: team id -> supervisor_id, None for none
    team_last     \* the last update_members call and the table users before it

vars ==
    <<inputs, pc, sim_input, ctor_raised, ret, raised, locals, logged,
      form_inputs, run_pc, run_frame, frames,
      manage_args, manage_ret, session, audit_log, auth_last, verified,
      user_team, team_supervisor, team_last>>

runVars == <<form_inputs, run_pc, run_frame>>
manageVars == <<manage_args, manage_ret>>
authVars == <<session, audit_log, auth_last, verified>>
teamVars == <<user_team, team_supervisor, team_last>>
adminVars == <<manageVars, authVars, teamVars>>
calcVars == <<inputs, pc, sim_input, ctor_raised, ret, raised, locals, logged>>

\* a form with every number field empty
EmptyForm ==
    [cliente_nome |-> "Cliente", valor_credito |-> None, prazo_meses |-> None,
     taxa_administracao_total |-> None, percentual_lance_ofertado |-> None,
     percentual_lance_embutido |-> None, qtd_parcelas_lance_ofertado |-> None,
     assembleia_atual |-> None, opcao_plano_light |-> 1,
     opcao_seguro_prestamista |-> 0, opcao_diluir_lance |-> 1]

\* no session operation or repository call has happened
NoOperation == [op |-> "none"]

\* the administration pages and the session are not part of the run
AdminIdle ==
    /\ manage_args = << >>
    /\ manage_ret = << >>
    /\ session = << >>
    /\ audit_log = << >>
    /\ auth_last = NoOperation
    /\ verified = FALSE
    /\ user_team = << >>
    /\ team_supervisor = << >>
    /\ team_last = NoOperation

Init ==
    /\ inputs \in Inputs
    /\ pc = [ctor |-> "idle", calc |-> "idle"]
    /\ sim_input = << >>
    /\ ctor_raised = "none"
    /\ ret = << >>
    /\ raised = "none"
    /\ locals = << >>
    /\ logged = << >>
    /\ form_inputs = EmptyForm
    /\ run_pc = "off"
    /\ run_frame = RunFrame
    /\ frames = << >>
    /\ AdminIdle

\* SimulationInput(**parameters): data_models.py lines 23-46.
\* The dataclass converts nothing, so the constructor is modelled for
\* parameters whose entries are numbers (an entry may be absent).
Construct ==
    /\ pc.ctor = "idle"
    /\ inputs.anomaly.kind \in {"ok", "missing"}
    /\ pc' = [pc EXCEPT !.ctor = "done"]
    /\ ctor_raised' = SimulationInputError(inputs)
    /\ sim_input' = IF SimulationInputError(inputs) = "none"
                    THEN <<Fields(inputs)>> ELSE << >>
    /\ UNCHANGED <<inputs, ret, raised, locals, logged>>
    /\ UNCHANGED runVars
    /\ UNCHANGED frames
    /\ UNCHANGED adminVars

\* realizar_calculo_simulacao(inputs): simulation_calculator.py lines 11-148
Calculate ==
    /\ pc.calc = "idle"
    /\ pc' = [pc EXCEPT !.calc = "done"]
    /\ LET t == TryBlock(inputs)
       IN  IF t.exc = "none"
           THEN /\ ret' = <<SuccessDict(t.locals[1])>>
                /\ raised' = "none"
                /\ locals' = t.locals
                /\ logged' = logged
           ELSE /\ ret' = IF ExceptClauses(t.exc).raised = "none"
                          THEN <<ExceptClauses(t.exc).returned>> ELSE << >>
                /\ raised' = ExceptClauses(t.exc).raised
                /\ locals' = << >>
                /\ logged' = Append(logged, ExceptClauses(t.exc).level)
    /\ UNCHANGED <<inputs, sim_input, ctor_raised>>
    /\ UNCHANGED runVars
    /\ UNCHANGED frames
    /\ UNCHANGED adminVars

Next == Construct \/ Calculate

Spec == Init /\ [][Next]_vars

\* ------------------------------------------------------------------------
\* The page service: one form submitted to run_simulation
\* ------------------------------------------------------------------------
InitRun ==
    /\ inputs = Baseline
    /\ pc = [ctor |-> "idle", calc |-> "idle"]
    /\ sim_input = << >>
    /\ ctor_raised = "none"
    /\ ret = << >>
    /\ raised = "none"
    /\ locals = << >>
    /\ logged = << >>
    /\ form_inputs \in FormInputs
    /\ run_pc = RunBody[1]
    /\ run_frame = RunFrame
    /\ frames = << >>
    /\ AdminIdle

\* lines 85-124: the statement run_simulation is at is executed; an
\* exception leads to the except clauses, a return ends the method
RunStep ==
    /\ run_pc \in {RunBody[k] : k \in DOMAIN RunBody}
    /\ run_frame' = RunStatement(run_pc, form_inputs, run_frame)
    /\ run_pc' = IF run_frame'.exc # "none" THEN "except"
                 ELSE IF run_frame'.returned # << >> THEN "done"
                 ELSE Successor(RunBody, run_pc)
    /\ UNCHANGED form_inputs
    /\ UNCHANGED calcVars
    /\ UNCHANGED frames
    /\ UNCHANGED adminVars

\* lines 126-135: the matching except clause runs and None is returned
RunHandle ==
    /\ run_pc = "except"
    /\ run_frame' = [run_frame EXCEPT !.trace = @ \o RunExcept(run_frame.exc),
                                      !.returned = <<[kind |-> "None", value |-> << >>]>>]
    /\ run_pc' = "done"
    /\ UNCHANGED form_inputs
    /\ UNCHANGED calcVars
    /\ UNCHANGED frames
    /\ UNCHANGED adminVars

NextRun == RunStep \/ RunHandle

SpecRun == InitRun /\ [][NextRun]_vars

\* ------------------------------------------------------------------------
\* MaxCalls calls of the calculator, their steps interleaved in any order
\* ------------------------------------------------------------------------
Calls == 1..MaxCalls

InitCalls ==
    /\ inputs = Baseline
    /\ pc = [ctor |-> "idle", calc |-> "idle"]
    /\ sim_input = << >>
    /\ ctor_raised = "none"
    /\ ret = << >>
    /\ raised = "none"
    /\ locals = << >>
    /\ logged = << >>
    /\ form_inputs = EmptyForm
    /\ run_pc = "off"
    /\ run_frame = RunFrame
    /\ frames \in [Calls -> {Frame(i) : i \in CallInputs}]
    /\ AdminIdle

\* what a step of one call leaves alone besides the frames and the logger
CallFrame == <<inputs, pc, sim_input, ctor_raised, ret, raised, locals, runVars, adminVars>>

\* lines 32-50 of call c: unpacking and validation
CallUnpack(c) ==
    /\ frames[c].pc = "start"
    /\ frames' =
           IF UnpackError(frames[c].inputs) # "none"
           THEN [frames EXCEPT ![c].exc = UnpackError(frames[c].inputs),
                               ![c].pc = "except"]
           ELSE [StoreLocal(frames, c, "v", <<Unpack(LoadLocal(frames, c, "inputs"))>>)
                     EXCEPT ![c].pc = "compute"]
    /\ UNCHANGED <<logged, CallFrame>>

\* lines 52-120 of call c: the computation on the unpacked locals
CallCompute(c) ==
    /\ frames[c].pc = "compute"
    /\ frames' =
           IF DivisionByZero(Compute(LoadLocal(frames, c, "v")[1]))
           THEN [frames EXCEPT ![c].exc = "ZeroDivisionError", ![c].pc = "except"]
           ELSE [StoreLocal(frames, c, "l", <<Compute(LoadLocal(frames, c, "v")[1])>>)
                     EXCEPT ![c].pc = "return"]
    /\ UNCHANGED <<logged, CallFrame>>

\* lines 122-136 of call c: the success dict is built and returned
CallReturn(c) ==
    /\ frames[c].pc = "return"
    /\ frames' = [frames EXCEPT ![c].ret = <<SuccessDict(LoadLocal(frames, c, "l")[1])>>,
                                ![c].pc = "done"]
    /\ UNCHANGED <<logged, CallFrame>>

\* lines 137-148 of call c: the except clause logs and returns the error dict
CallExcept(c) ==
    /\ frames[c].pc = "except"
    /\ logged' = Append(logged, ExceptClauses(frames[c].exc).level)
    /\ frames' = [frames EXCEPT ![c].ret = <<ExceptClauses(frames[c].exc).returned>>,
                                ![c].pc = "done"]
    /\ UNCHANGED CallFrame

NextCalls ==
    \E c \in Calls : CallUnpack(c) \/ CallCompute(c) \/ CallReturn(c) \/ CallExcept(c)

SpecCalls == InitCalls /\ [][NextCalls]_vars

\* the calculator, the page service and the concurrent calls are not part
\* of the run
CalcIdle ==
    /\ inputs = Baseline
    /\ pc = [ctor |-> "idle", calc |-> "idle"]
    /\ sim_input = << >>
    /\ ctor_raised = "none"
    /\ ret = << >>
    /\ raised = "none"
    /\ locals = << >>
    /\ logged = << >>
    /\ form_inputs = EmptyForm
    /\ run_pc = "off"
    /\ run_frame = RunFrame
    /\ frames = << >>

simVars == <<calcVars, runVars, frames>>

\* ------------------------------------------------------------------------
\* Vocabulary of the properties
\* ------------------------------------------------------------------------
Called == pc.calc = "done"
Success == Called /\ ret # << >> /\ ret[1].status = "success"
Constructed == pc.ctor = "done"

IsInt(a) == a[2] = 1

\* one of the five construction invariants of the data model is violated
ViolatesInvariant(i) ==
    \/ RLe(i.valor_credito, Zero)
    \/ RLe(i.prazo_meses, Zero)
    \/ RLt(i.taxa_administracao_total, Zero)
    \/ RGt(i.assembleia_atual, i.prazo_meses)
    \/ RGt(i.percentual_lance_embutido, i.percentual_lance_ofertado)

\* every constraint of the data model's table holds of the parameters
ValidInput(i) ==
    /\ i.anomaly = NoAnomaly
    /\ RGt(i.valor_credito, Zero)
    /\ IsInt(i.prazo_meses) /\ RGt(i.prazo_meses, Zero)
    /\ RLe(Zero, i.taxa_administracao_total)
    /\ IsInt(i.assembleia_atual)
    /\ RLe(One, i.assembleia_atual) /\ RLe(i.assembleia_atual, i.prazo_meses)
    /\ RLe(Zero, i.percentual_lance_embutido)
    /\ RLe(i.percentual_lance_embutido, i.percentual_lance_ofertado)
    /\ IsInt(i.qtd_parcelas_lance_ofertado) /\ RLe(Zero, i.qtd_parcelas_lance_ofertado)

NoBid(i) ==
    /\ i.percentual_lance_ofertado = Zero
    /\ i.percentual_lance_embutido = Zero
    /\ i.qtd_parcelas_lance_ofertado = Zero

\* the insurance rate selected by opcao_seguro_prestamista
SelectedRate(i) ==
    IF i.opcao_seguro_prestamista = 1 THEN i.TAXA_SEGURO_AUTO
    ELSE IF i.opcao_seguro_prestamista = 2 THEN i.TAXA_SEGURO_IMOVEL
    ELSE Zero

\* valor_credito * (fator_taxa_total - assembleia_atual * percentual_parcela_base)
\*              / (prazo_meses - assembleia_atual), 0 when no term remains
PreBidInstallment(i) ==
    LET fator == RAdd(One, i.taxa_administracao_total)
        ppb == RMul(RDiv(fator, i.prazo_meses), mapa_plano_light(i.opcao_plano_light))
        due == RSub(fator, RMul(i.assembleia_atual, ppb))
    IN  IF i.assembleia_atual = i.prazo_meses THEN Zero
        ELSE RMul(i.valor_credito, RDiv(due, RSub(i.prazo_meses, i.assembleia_atual)))

\* ------------------------------------------------------------------------
\* C1 - Constructing a SimulationInput that violates one of the five
\* invariants fails with InvalidInputError.  (Refuted: the constructor raises
\* the built-in ValueError, which is not an InvalidInputError.)
\* ------------------------------------------------------------------------
C1_RejectsWithInvalidInputError ==
    (Constructed /\ inputs.anomaly = NoAnomaly /\ ViolatesInvariant(inputs))
        => (ctor_raised = "InvalidInputError" /\ sim_input = << >>)

\* ------------------------------------------------------------------------
\* C2 - For a parameter map that violates any of the five invariants the
\* calculator reports an error and returns none of the twelve result fields.
\* (Refuted: percentual_lance_embutido > percentual_lance_ofertado is not
\* checked by the calculator.)
\* ------------------------------------------------------------------------
C2_NoResultOnInvalidInput ==
    (Called /\ inputs.anomaly = NoAnomaly /\ ViolatesInvariant(inputs))
        => (/\ ret # << >>
            /\ ret[1].status = "error"
            /\ DOMAIN ret[1] \cap ResultFields = {})

\* ------------------------------------------------------------------------
\* C3 - In the full-embedded-bid scenario valor_lance_recurso_proprio is 0.
\* (Refuted: the offered total is 0 installments while 61 installments are
\* embedded, so the difference is negative.)
\* ------------------------------------------------------------------------
C3_FullEmbeddedNoOwnResource ==
    (Called /\ inputs = FullEmbedded)
        => (Success /\ ret[1].valor_lance_recurso_proprio = Zero)

\* ------------------------------------------------------------------------
\* C4 - No-bid baseline.  As stated: for every valid input without a bid,
\* whatever the insurance option, nova_parcela_pos_lance equals the pre-bid
\* per-installment amortization for the remaining term.
\* ------------------------------------------------------------------------
C4_NoBidEqualsPreBidInstallment ==
    (Called /\ ValidInput(inputs) /\ NoBid(inputs))
        => (/\ Success
            /\ ret[1].nova_parcela_pos_lance = PreBidInstallment(inputs))

\* C4 as amended: for every valid input without a bid nova_parcela_pos_lance
\* equals the pre-bid per-installment amortization plus the insurance charged
\* on the final balance (selected rate * saldo_devedor_base_final); the two
\* are equal when opcao_seguro_prestamista selects no insurance.
C4_NoBidInstallmentPlusInsurance ==
    (Called /\ ValidInput(inputs) /\ NoBid(inputs))
        => (/\ Success
            /\ locals[1].valor_parcela_base_pos_assembleia = PreBidInstallment(inputs)
            /\ ret[1].nova_parcela_pos_lance =
                   RAdd(PreBidInstallment(inputs),
                        RMul(SelectedRate(inputs), ret[1].saldo_devedor_base_final))
            /\ (inputs.opcao_seguro_prestamista \notin {1, 2}
                    => ret[1].nova_parcela_pos_lance = PreBidInstallment(inputs)))

C4_Witness ==
    /\ Success /\ ValidInput(inputs) /\ NoBid(inputs)
    /\ inputs.opcao_seguro_prestamista = 2
    /\ inputs.assembleia_atual # inputs.prazo_meses
    /\ RGt(ret[1].nova_parcela_pos_lance, PreBidInstallment(inputs))

\* ------------------------------------------------------------------------
\* C5 - Terminal edge: for every valid input with assembleia_atual =
\* prazo_meses the calculation completes (no division by zero) and
\* taxa_amortizacao_mensal_pos_assembleia and nova_parcela_base are both 0.
\* ------------------------------------------------------------------------
C5_TerminalEdge ==
    (Called /\ ValidInput(inputs) /\ inputs.assembleia_atual = inputs.prazo_meses)
        => (/\ Success
            /\ locals[1].taxa_amortizacao_mensal_pos_assembleia = Zero
            /\ locals[1].nova_parcela_base = Zero)

C5_Witness ==
    /\ Success /\ ValidInput(inputs)
    /\ inputs.assembleia_atual = inputs.prazo_meses
    /\ RGt(inputs.prazo_meses, One)
    /\ RGt(inputs.percentual_lance_embutido, Zero)
    /\ RGt(inputs.qtd_parcelas_lance_ofertado, Zero)
    /\ inputs.opcao_diluir_lance = 3
    /\ inputs.opcao_seguro_prestamista = 1

\* ------------------------------------------------------------------------
\* C6 - Zero-term policy: for every valid input with prazo_restante_final
\* <= 0 the calculation succeeds and nova_parcela_pos_lance is 0, insurance
\* selected or not.  (Refuted: insurance is still charged on the final
\* balance when no installment remains.)
\* ------------------------------------------------------------------------
C6_ZeroTermZeroInstallment ==
    (Called /\ ValidInput(inputs))
        => (/\ Success
            /\ (RLe(ret[1].prazo_restante_final, Zero)
                    => ret[1].nova_parcela_pos_lance = Zero))

\* ------------------------------------------------------------------------
\* C7 - Credit conservation: credito_disponivel = credito_contratado -
\* valor_lance_embutido, and credito_contratado is the input valor_credito.
\* ------------------------------------------------------------------------
C7_CreditConservation ==
    Success
        => (/\ ret[1].credito_disponivel =
                   RSub(ret[1].credito_contratado, ret[1].valor_lance_embutido)
            /\ ret[1].credito_contratado = inputs.valor_credito)

C7_Witness ==
    /\ Success /\ ValidInput(inputs)
    /\ RGt(ret[1].valor_lance_embutido, Zero)
    /\ RLt(ret[1].credito_disponivel, inputs.valor_credito)

\* ------------------------------------------------------------------------
\* C8 - With percentual_lance_embutido = 0, valor_lance_embutido is 0 and
\* credito_disponivel is positive and equal to valor_credito, for any
\* offered bid and any dilution option.
\* ------------------------------------------------------------------------
C8_NoEmbeddedBidKeepsCredit ==
    (Called /\ ValidInput(inputs) /\ inputs.percentual_lance_embutido = Zero)
        => (/\ Success
            /\ ret[1].valor_lance_embutido = Zero
            /\ ret[1].credito_disponivel = inputs.valor_credito
            /\ RGt(ret[1].credito_disponivel, Zero))

C8_Witness ==
    /\ Success /\ inputs = Baseline
    /\ ret[1].credito_disponivel = R(250000)
    /\ RGt(ret[1].valor_lance_ofertado_total, Zero)

\* ------------------------------------------------------------------------
\* C9 - In the baseline scenario the bid reduces the installment:
\* nova_parcela_pos_lance < valor_parcela_inicial.
\* ------------------------------------------------------------------------
C9_BaselineBidReducesInstallment ==
    (Called /\ inputs = Baseline)
        => (/\ Success
            /\ RLt(ret[1].nova_parcela_pos_lance, ret[1].valor_parcela_inicial))

C9_Witness ==
    /\ Success /\ inputs = Baseline
    /\ ret[1].valor_parcela_inicial = <<9875, 8>>
    /\ ret[1].prazo_restante_final = R(239)

\* ------------------------------------------------------------------------
\* C10 - An arithmetic fault inside the calculation reaches the caller as a
\* raised CalculationError.  (Refuted: the fault is caught, logged and turned
\* into a returned error dict; nothing is raised.)
\* ------------------------------------------------------------------------
C10_ArithmeticFaultRaisesCalculationError ==
    (Called /\ TryBlock(inputs).exc \in {"OverflowError", "ZeroDivisionError"})
        => (raised = "CalculationError" /\ ret = << >>)

\* ------------------------------------------------------------------------
\* Vocabulary of the properties on the computed figures
\* ------------------------------------------------------------------------
RAbs(a) == IF a[1] < 0 THEN RNeg(a) ELSE a
Half == <<1, 2>>

\* one of the lower bounds of the data model's table is violated
LowerBoundViolated(i) ==
    \/ RLt(i.assembleia_atual, One)
    \/ RLt(i.percentual_lance_ofertado, Zero)
    \/ RLt(i.percentual_lance_embutido, Zero)
    \/ RLt(i.qtd_parcelas_lance_ofertado, Zero)

\* q is the integer nearest to x, an exact tie resolved to the even integer
NearestEven(q, x) ==
    /\ IsInt(q)
    /\ RLe(RAbs(RSub(q, x)), Half)
    /\ (RAbs(RSub(q, x)) = Half => q[1] % 2 = 0)

\* fator_taxa_total, percentual_parcela_base and the post-assembly monthly
\* rate as the stages 1, 2 and 4 of the algorithm derive them from an input
StageFator(i) == RAdd(One, i.taxa_administracao_total)
StagePercentualBase(i) ==
    RMul(RDiv(StageFator(i), i.prazo_meses), mapa_plano_light(i.opcao_plano_light))
StageTaxaPos(i) ==
    IF RLe(RSub(i.prazo_meses, i.assembleia_atual), Zero) THEN Zero
    ELSE RDiv(RSub(StageFator(i), RMul(i.assembleia_atual, StagePercentualBase(i))),
              RSub(i.prazo_meses, i.assembleia_atual))

\* ------------------------------------------------------------------------
\* C11 - Every lower bound of the data model is enforced before computation:
\* assembleia_atual < 1, a negative bid percentage or a negative
\* qtd_parcelas_lance_ofertado is rejected by the constructor and by the
\* calculator.  (Refuted: neither checks any of these lower bounds.)
\* ------------------------------------------------------------------------
C11_LowerBoundsEnforced ==
    /\ (Constructed /\ inputs.anomaly = NoAnomaly /\ LowerBoundViolated(inputs))
           => ctor_raised # "none"
    /\ (Called /\ inputs.anomaly = NoAnomaly /\ LowerBoundViolated(inputs))
           => (ret # << >> /\ ret[1].status = "error")

\* ------------------------------------------------------------------------
\* C14 - The calculator has no side effect on any path: it sends nothing to
\* the logger and leaves its parameters as they were.  (Refuted: every
\* failing path logs a record.)
\* ------------------------------------------------------------------------
C14_NoSideEffects ==
    Called => logged = << >>

C18_EmbeddedBidWithinHalfInstallment ==
    (Success /\ ValidInput(inputs))
        => LET parcela == locals[1].valor_parcela_base_pos_assembleia
               qtd == locals[1].qtd_parcelas_lance_embutido
               alvo == RMul(inputs.valor_credito, inputs.percentual_lance_embutido)
           IN  /\ IF RGt(parcela, Zero) THEN NearestEven(qtd, RDiv(alvo, parcela))
                                        ELSE qtd = Zero
               /\ ret[1].valor_lance_embutido = RMul(qtd, parcela)
               /\ RLe(RAbs(RSub(ret[1].valor_lance_embutido, alvo)), RMul(Half, parcela))

\* C18 as amended: the same, the half-installment bound holding when the
\* post-assembly installment is positive; when it is 0 (assembleia_atual =
\* prazo_meses) the count and valor_lance_embutido are 0 whatever
\* percentual_lance_embutido is.
C18_EmbeddedBidRoundsOnce ==
    (Success /\ ValidInput(inputs))
        => LET parcela == locals[1].valor_parcela_base_pos_assembleia
               qtd == locals[1].qtd_parcelas_lance_embutido
               alvo == RMul(inputs.valor_credito, inputs.percentual_lance_embutido)
           IN  /\ IF RGt(parcela, Zero) THEN NearestEven(qtd, RDiv(alvo, parcela))
                                        ELSE qtd = Zero
               /\ ret[1].valor_lance_embutido = RMul(qtd, parcela)
               /\ IF RGt(parcela, Zero)
                  THEN RLe(RAbs(RSub(ret[1].valor_lance_embutido, alvo)), RMul(Half, parcela))
                  ELSE ret[1].valor_lance_embutido = Zero

\* an exact tie: 0.3 * 2 / 1.2 = 0.5 installments, rounded to 0
C18_Witness ==
    /\ Success /\ ValidInput(inputs)
    /\ RGt(locals[1].valor_parcela_base_pos_assembleia, Zero)
    /\ RAbs(RSub(locals[1].qtd_parcelas_lance_embutido,
                 locals[1].qtd_parcelas_lance_embutido_float)) = Half

\* ------------------------------------------------------------------------
\* C19 - Final balance: saldo_devedor_base_final = valor_credito *
\* fator_taxa_total - (qtd_parcelas_lance_ofertado *
\* taxa_amortizacao_mensal_pos_assembleia + assembleia_atual *
\* percentual_parcela_base * valor_credito).
\* ------------------------------------------------------------------------
C19_FinalBalance ==
    (Success /\ ValidInput(inputs))
        => ret[1].saldo_devedor_base_final =
               RSub(RMul(inputs.valor_credito, StageFator(inputs)),
                    RAdd(RMul(inputs.qtd_parcelas_lance_ofertado, StageTaxaPos(inputs)),
                         RMul(RMul(inputs.assembleia_atual, StagePercentualBase(inputs)),
                              inputs.valor_credito)))

C19_Witness ==
    /\ Success /\ ValidInput(inputs)
    /\ RGt(inputs.qtd_parcelas_lance_ofertado, One)
    /\ RGt(StageTaxaPos(inputs), Zero)
    /\ inputs.valor_credito # One
    /\ inputs.opcao_plano_light = 3

\* ------------------------------------------------------------------------
\* C20 - Dilution and final term: the two dilution flags are never both
\* set; total_parcelas_pagas_no_lance is assembleia_atual plus the embedded
\* count for option 1, plus the offered count for option 3, and
\* assembleia_atual alone otherwise; prazo_restante_final +
\* total_parcelas_pagas_no_lance = prazo_meses.
\* ------------------------------------------------------------------------
C20_DilutionAndFinalTerm ==
    (Success /\ ValidInput(inputs))
        => LET l == locals[1]
           IN  /\ l.flag_diluir_lance_sim + l.flag_diluir_lance_nao <= 1
               /\ ret[1].total_parcelas_pagas_no_lance =
                      (CASE inputs.opcao_diluir_lance = 1 ->
                                RAdd(inputs.assembleia_atual, l.qtd_parcelas_lance_embutido)
                         [] inputs.opcao_diluir_lance = 3 ->
                                RAdd(inputs.assembleia_atual, inputs.qtd_parcelas_lance_ofertado)
                         [] OTHER -> inputs.assembleia_atual)
               /\ RAdd(ret[1].prazo_restante_final, ret[1].total_parcelas_pagas_no_lance)
                      = inputs.prazo_meses

C20_Witness ==
    /\ Success /\ ValidInput(inputs)
    /\ inputs.opcao_diluir_lance = 1
    /\ RGt(locals[1].qtd_parcelas_lance_embutido, Zero)
    /\ RGt(inputs.qtd_parcelas_lance_ofertado, Zero)
    /\ ret[1].total_parcelas_pagas_no_lance
           = RAdd(inputs.assembleia_atual, locals[1].qtd_parcelas_lance_embutido)

\* ------------------------------------------------------------------------
\* Vocabulary of the properties of run_simulation
\* ------------------------------------------------------------------------
RunDone == run_pc = "done"

\* the form has every required field and the object built from it
\* satisfies every check of SimulationInput
FormValid(f) ==
    /\ MissingRequired(f) = {}
    /\ post_init(BuildSimulationInput(f)) = "none"

Writes == {"sim_repo.log", "audit_repo.log_event"}
CacheClears == {MetricCaches[k] : k \in DOMAIN MetricCaches}
Before(x, i) == \E j \in 1..(i - 1) : run_frame.trace[j] = x

\* ------------------------------------------------------------------------
\* C15 - run_simulation returns None only on failure: for a form with every
\* required field that satisfies the SimulationInput invariants, and
\* repositories that do not fail, the calculator accepts the object built,
\* yields a successful result and run_simulation returns it.  (Refuted: the
\* calculator subscripts the object, and the result dict has no __dict__.)
\* ------------------------------------------------------------------------
C15_ValidFormReturnsResult ==
    (RunDone /\ FormValid(form_inputs))
        => (/\ run_frame.returned[1].kind = "result"
            /\ run_frame.returned[1].value[1].value.status = "success")

CallDone(c) == frames[c].pc = "done"

\* what realizar_calculo_simulacao returns for i when no other call runs
ResultWhenAlone(i) == realizar_calculo_simulacao(DictValue(i)).returned.value

C13_NoInterferenceNoSharedState ==
    /\ \A c \in Calls :
           CallDone(c) => frames[c].ret = <<ResultWhenAlone(frames[c].inputs)>>
    /\ logged = << >>

\* the part of C13 about the results alone
C13_ResultIsolation ==
    \A c \in Calls :
        CallDone(c) => frames[c].ret = <<ResultWhenAlone(frames[c].inputs)>>

\* ------------------------------------------------------------------------
\* Vocabulary of the properties on the installments and the bounds
\* ------------------------------------------------------------------------
\* the light-plan table as the data model states it, 1.0 for any other option
TablePlanoLight(opcao) ==
    IF opcao = 1 THEN One
    ELSE IF opcao = 2 THEN <<5, 10>>
    ELSE IF opcao = 3 THEN <<6, 10>>
    ELSE IF opcao = 4 THEN <<7, 10>>
    ELSE IF opcao = 5 THEN <<8, 10>>
    ELSE IF opcao = 6 THEN <<9, 10>>
    ELSE One

\* a / b for rationals given in any form
Ratio(a, b) == RDiv(RAdd(a, Zero), RAdd(b, Zero))

\* the values of percentual_lance_ofertado two inputs may differ in
OfertadoValues == {Zero, <<3, 10>>, <<1, 2>>, One}

\* ------------------------------------------------------------------------
\* C21 - Initial installment: for every valid input valor_parcela_inicial =
\* valor_credito * (fator_taxa_total / prazo_meses) * fator_plano_light +
\* rate * valor_credito * fator_taxa_total, the factor taken from the table
\* (1.0 for any other option), the rate being the auto rate for option 1,
\* the property rate for option 2 and 0 otherwise.
\* ------------------------------------------------------------------------
C21_InitialInstallment ==
    (Success /\ ValidInput(inputs))
        => ret[1].valor_parcela_inicial =
               RAdd(RMul(RMul(inputs.valor_credito,
                              RDiv(StageFator(inputs), inputs.prazo_meses)),
                         Ratio(TablePlanoLight(inputs.opcao_plano_light), One)),
                    RMul(SelectedRate(inputs),
                         RMul(inputs.valor_credito, StageFator(inputs))))

C21_Witness ==
    /\ Success /\ ValidInput(inputs)
    /\ inputs.opcao_plano_light = 7
    /\ inputs.opcao_seguro_prestamista = 2
    /\ RGt(inputs.taxa_administracao_total, Zero)
    /\ RGt(ret[1].valor_parcela_inicial,
           RMul(inputs.valor_credito, RDiv(StageFator(inputs), inputs.prazo_meses)))

\* ------------------------------------------------------------------------
\* C22 - Insurance on the new installment is charged on the final balance:
\* for every valid input nova_parcela_pos_lance = nova_parcela_base + rate *
\* saldo_devedor_base_final with the rate selection of the initial
\* installment, and nova_parcela_base = saldo_devedor_base_final /
\* prazo_restante_final when prazo_restante_final > 0.
\* ------------------------------------------------------------------------
C22_InsuranceOnFinalBalance ==
    (Success /\ ValidInput(inputs))
        => (/\ ret[1].nova_parcela_pos_lance =
                   RAdd(locals[1].nova_parcela_base,
                        RMul(SelectedRate(inputs), ret[1].saldo_devedor_base_final))
            /\ RGt(ret[1].prazo_restante_final, Zero)
                   => locals[1].nova_parcela_base =
                          RDiv(ret[1].saldo_devedor_base_final, ret[1].prazo_restante_final))

C22_Witness ==
    /\ Success /\ ValidInput(inputs)
    /\ inputs.opcao_seguro_prestamista = 1
    /\ RGt(ret[1].prazo_restante_final, One)
    /\ RGt(inputs.qtd_parcelas_lance_ofertado, Zero)
    /\ RGt(ret[1].nova_parcela_pos_lance, locals[1].nova_parcela_base)
    /\ ret[1].saldo_devedor_base_final # locals[1].valor_total_a_pagar

\* ------------------------------------------------------------------------
\* C26 - The out-of-pocket bid amount is never negative: for every input
\* that satisfies the SimulationInput invariants with non-negative bid
\* parameters, valor_lance_recurso_proprio >= 0.  (Refuted: the offered
\* total is sized by the installment count, the embedded bid by its
\* percentage.)
\* ------------------------------------------------------------------------
C26_OwnResourceNonNegative ==
    (Success /\ ValidInput(inputs))
        => RLe(Zero, ret[1].valor_lance_recurso_proprio)

\* ------------------------------------------------------------------------
\* C27 - The remaining term is never negative: for every input that
\* satisfies the SimulationInput invariants with non-negative bid
\* parameters, prazo_restante_final >= 0 under both dilution options.
\* (Refuted: the installments paid with the bid are not bounded by the
\* term that remains.)
\* ------------------------------------------------------------------------
C27_RemainingTermNonNegative ==
    (Success /\ ValidInput(inputs))
        => RLe(Zero, ret[1].prazo_restante_final)

\* ------------------------------------------------------------------------
\* C28 - Available credit stays within bounds: for every valid input with
\* 0 <= percentual_lance_embutido <= 1, 0 <= credito_disponivel <=
\* credito_contratado.  (Refuted: the embedded bid rounded up to whole
\* installments can exceed the credit.)
\* ------------------------------------------------------------------------
C28_AvailableCreditWithinBounds ==
    (Success /\ ValidInput(inputs) /\ RLe(inputs.percentual_lance_embutido, One))
        => (/\ RLe(Zero, ret[1].credito_disponivel)
            /\ RLe(ret[1].credito_disponivel, ret[1].credito_contratado))

\* ------------------------------------------------------------------------
\* C29 - The offered-bid percentage influences only its own echo: two valid
\* inputs that differ only in percentual_lance_ofertado have results equal
\* in every field except percentual_lance_recurso_proprio.
\* ------------------------------------------------------------------------
C29_OfertadoOnlyEchoed ==
    (Success /\ ValidInput(inputs))
        => \A o \in OfertadoValues :
               LET other == [inputs EXCEPT !.percentual_lance_ofertado = o]
               IN  ValidInput(other)
                       => (/\ ResultWhenAlone(other).status = "success"
                           /\ \A f \in ResultFields \ {"percentual_lance_recurso_proprio"} :
                                  ResultWhenAlone(other)[f] = ret[1][f])

C29_Witness ==
    /\ Success /\ ValidInput(inputs)
    /\ RGt(inputs.qtd_parcelas_lance_ofertado, Zero)
    /\ inputs.percentual_lance_embutido = <<3, 10>>
    /\ RGt(ret[1].valor_lance_embutido, Zero)
    /\ LET other == [inputs EXCEPT !.percentual_lance_ofertado = One]
       IN  /\ ValidInput(other)
           /\ other # inputs
           /\ ResultWhenAlone(other).percentual_lance_recurso_proprio
                  # ret[1].percentual_lance_recurso_proprio

\* ---------------------------------------------------------------------
\* user_management_view.py: the permission check of the user
\* administration tab.  An Optional[int] is None or <<k>>.
\* ---------------------------------------------------------------------

MaxUserId == 3
MaxTeamId == 2

\* config.USER_ROLES
USER_ROLES == {"Consultor", "Supervisor", "Admin"}

UserIds == 1..MaxUserId
TeamIds == 1..MaxTeamId
OptionalTeam == {None} \cup {<<t>> : t \in TeamIds}

\* the rows get_user_by_id can return, as far as can_manage_user reads them
TargetUserData == [id : UserIds, role : USER_ROLES, team_id : OptionalTeam]

can_manage_user(manager_role, manager_id, manager_team_id, target_user_data) ==
    IF manager_role = "Admin" THEN TRUE
    ELSE IF manager_role = "Supervisor"
         THEN IF \/ target_user_data.id = manager_id
                 \/ target_user_data.role \in {"Admin", "Supervisor"}
              THEN FALSE
              ELSE target_user_data.team_id = manager_team_id
         ELSE FALSE

ManageArgs == [manager_role : USER_ROLES, manager_id : UserIds, manager_team_id : OptionalTeam, target_user_data : TargetUserData]

InitManage ==
    /\ CalcIdle
    /\ manage_args \in {<<a>> : a \in ManageArgs}
    /\ manage_ret = << >>
    /\ session = << >>
    /\ audit_log = << >>
    /\ auth_last = NoOperation
    /\ verified = FALSE
    /\ user_team = << >>
    /\ team_supervisor = << >>
    /\ team_last = NoOperation

\* show(), line 122: the one call of can_manage_user
CanManageUser ==
    /\ manage_ret = << >>
    /\ manage_ret' = <<can_manage_user(manage_args[1].manager_role, manage_args[1].manager_id, manage_args[1].manager_team_id, manage_args[1].target_user_data)>>
    /\ UNCHANGED manage_args
    /\ UNCHANGED <<simVars, authVars, teamVars>>

NextManage == CanManageUser

SpecManage == InitManage /\ [][NextManage]_vars

\* ---------------------------------------------------------------------
\* auth_service.py and page_setup.py: the session of one browser tab.
\* st.session_state is a function from the keys present to their values;
\* a script run is one step, Streamlit runs the scripts of a session one
\* at a time.
\* ---------------------------------------------------------------------

MaxEvents == 2

\* config.py, lines 30-38
SessionKeys == {"authenticated", "user_id", "user_name", "user_role", "simulation_inputs", "simulation_results", "confirming_delete_user", "confirming_delete_team", "do_logout"}

\* st.session_state.get(key, default)
SessionGet(s, key, default) == IF key \in DOMAIN s THEN s[key] ELSE default

\* st.session_state[key] = value
SessionSet(s, key, value) == [k \in DOMAIN s \cup {key} |-> IF k = key THEN value ELSE s[k]]

\* del st.session_state[key] for each key of keys present
SessionDel(s, keys) == [k \in DOMAIN s \ keys |-> s[k]]

\* bcrypt.hashpw: the hash holds what checkpw needs to recognise the password
hash_password(password) == [kind |-> "bcrypt", password |-> password]

\* a stored value bcrypt.checkpw rejects with ValueError
MalformedHash == [kind |-> "malformed", password |-> ""]

\* the empty string as stored value
EmptyHash == [kind |-> "empty", password |-> ""]

\* table users, as far as login_user reads it
AuthUsers == {[id |-> 1, nome |-> "Ana", email |-> "ana@x", role |-> "Admin", password |-> hash_password("pa")], [id |-> 2, nome |-> "Bia", email |-> "bia@x", role |-> "Consultor", password |-> hash_password("pb")], [id |-> 3, nome |-> "Caio", email |-> "caio@x", role |-> "Supervisor", password |-> MalformedHash]}

\* what the login form can submit
Emails == {"", "ana@x", "bia@x", "caio@x", "ze@x"}
Passwords == {"", "pa", "pb"}

verify_password(password, hashed_password) ==
    IF password = "" \/ hashed_password = EmptyHash THEN FALSE
    ELSE IF hashed_password.kind # "bcrypt" THEN FALSE
    ELSE hashed_password.password = password

check_password(s) == SessionGet(s, "authenticated", FALSE)

\* user_repo.get_by_email as login_user relies on it: the user with that
\* e-mail, NoResultFound when there is none, or any other exception when
\* the database fails
get_by_email(email) ==
    LET found == {u \in AuthUsers : u.email = email}
    IN  {[raised |-> "none", user |-> u] : u \in found}
        \cup (IF found = {} THEN {[raised |-> "NoResultFound"]} ELSE {})
        \cup {[raised |-> "Exception"]}

\* audit_repo.log_event
log_event(log, action_type, user_id) == Append(log, [action_type |-> action_type, user_id |-> user_id])

\* the messages login_user returns (lines 84, 91 and 108, 94), without
\* their accents; the message of a returned pair is None or <<message>>
MsgRequired == "E-mail e senha sao obrigatorios."
MsgInvalid == "E-mail ou senha invalidos."
MsgSystemError == "Ocorreu um erro no sistema. Tente novamente mais tarde."

\* login_user with the outcome of the lookup: the session, the audit
\* events and the returned pair after the call
login_user_SessionFirst(s, log, email, password, lookup) ==
    IF email = "" \/ password = ""
    THEN [session |-> s, audit_log |-> log, ret |-> <<FALSE, <<MsgRequired>>>>]
    ELSE IF lookup.raised = "NoResultFound"
    THEN [session |-> s, audit_log |-> log_event(log, "LOGIN_FAILURE", None), ret |-> <<FALSE, <<MsgInvalid>>>>]
    ELSE IF lookup.raised # "none"
    THEN [session |-> s, audit_log |-> log, ret |-> <<FALSE, <<MsgSystemError>>>>]
    ELSE LET s1 == SessionSet(SessionSet(SessionSet(SessionSet(s, "authenticated", TRUE), "user_id", lookup.user.id), "user_name", lookup.user.nome), "user_role", lookup.user.role)
         IN  IF verify_password(password, lookup.user.password)
             THEN [session |-> s1, audit_log |-> log_event(log, "LOGIN_SUCCESS", <<lookup.user.id>>), ret |-> <<TRUE, None>>]
             ELSE [session |-> s1, audit_log |-> log_event(log, "LOGIN_FAILURE", <<lookup.user.id>>), ret |-> <<FALSE, <<MsgInvalid>>>>]

login_user(s, log, email, password, lookup) ==
    IF email = "" \/ password = ""
    THEN [session |-> s, audit_log |-> log, ret |-> <<FALSE, <<MsgRequired>>>>]
    ELSE IF lookup.raised = "NoResultFound"
    THEN [session |-> s, audit_log |-> log_event(log, "LOGIN_FAILURE", None), ret |-> <<FALSE, <<MsgInvalid>>>>]
    ELSE IF lookup.raised # "none"
    THEN [session |-> s, audit_log |-> log, ret |-> <<FALSE, <<MsgSystemError>>>>]
    ELSE IF verify_password(password, lookup.user.password)
    THEN [session |-> SessionSet(SessionSet(SessionSet(SessionSet(s, "authenticated", TRUE), "user_id", lookup.user.id), "user_name", lookup.user.nome), "user_role", lookup.user.role), audit_log |-> log_event(log, "LOGIN_SUCCESS", <<lookup.user.id>>), ret |-> <<TRUE, None>>]
    ELSE [session |-> s, audit_log |-> log_event(log, "LOGIN_FAILURE", <<lookup.user.id>>), ret |-> <<FALSE, <<MsgInvalid>>>>]

\* if user_id: of a value session_state.get returned
Truthy(user_id) == user_id # None /\ user_id # <<0>>

keys_to_clear_NoLogoutFlag == SessionKeys \ {"do_logout"}

keys_to_clear == SessionKeys

\* logout_user up to st.switch_page, which ends the script run
logout_user(s, log) ==
    LET user_id == IF "user_id" \in DOMAIN s THEN <<s["user_id"]>> ELSE None
    IN  [session |-> SessionDel(s, keys_to_clear), audit_log |-> IF Truthy(user_id) THEN log_event(log, "LOGOUT", user_id) ELSE log]

\* setup_page, lines 30-50
setup_page(s, log) ==
    IF ~check_password(s) THEN [session |-> s, audit_log |-> log]
    ELSE LET s1 == IF "do_logout" \notin DOMAIN s THEN SessionSet(s, "do_logout", FALSE) ELSE s
         IN  IF s1["do_logout"] THEN logout_user(s1, log)
             ELSE [session |-> s1, audit_log |-> log]

\* the values the pages store under the other session keys
OptionalId == {None, <<1>>}

InitAuth ==
    /\ CalcIdle
    /\ manage_args = << >>
    /\ manage_ret = << >>
    /\ session = << >>
    /\ audit_log = << >>
    /\ auth_last = NoOperation
    /\ verified = FALSE
    /\ user_team = << >>
    /\ team_supervisor = << >>
    /\ team_last = NoOperation

\* what a session operation leaves alone
AuthFrame == <<simVars, manageVars, teamVars>>

\* 00_Login.py, line 48: the form is submitted
LoginUser(email, password, lookup) ==
    LET r == login_user(session, audit_log, email, password, lookup)
    IN  /\ Len(r.audit_log) <= MaxEvents
        /\ session' = r.session
        /\ audit_log' = r.audit_log
        /\ auth_last' = [op |-> "login_user", session |-> session, audit_log |-> audit_log, email |-> email, password |-> password, lookup |-> lookup.raised, ret |-> r.ret]
        /\ verified' = (verified \/ \E u \in AuthUsers : u.email = email /\ lookup.raised = "none" /\ u.password = hash_password(password))
        /\ UNCHANGED AuthFrame

\* a page starts: setup_page, and logout_user when the flag is set
SetupPage ==
    LET r == setup_page(session, audit_log)
        logout == check_password(session) /\ SessionGet(session, "do_logout", FALSE)
    IN  /\ Len(r.audit_log) <= MaxEvents
        /\ session' = r.session
        /\ audit_log' = r.audit_log
        /\ auth_last' = [op |-> IF logout THEN "logout_user" ELSE "setup_page", session |-> session, audit_log |-> audit_log]
        /\ verified' = (verified /\ ~logout)
        /\ UNCHANGED AuthFrame

\* logout_user called on its own, whatever the session holds
LogoutUser ==
    LET r == logout_user(session, audit_log)
    IN  /\ Len(r.audit_log) <= MaxEvents
        /\ session' = r.session
        /\ audit_log' = r.audit_log
        /\ auth_last' = [op |-> "logout_user", session |-> session, audit_log |-> audit_log]
        /\ verified' = FALSE
        /\ UNCHANGED AuthFrame

\* a page of an authenticated session writes key; setup_page let it start
PageWrite(op, key, value) ==
    /\ check_password(session)
    /\ "do_logout" \in DOMAIN session
    /\ ~session["do_logout"]
    /\ session' = SessionSet(session, key, value)
    /\ auth_last' = [op |-> op, session |-> session, audit_log |-> audit_log]
    /\ UNCHANGED <<audit_log, verified>>
    /\ UNCHANGED AuthFrame

\* page_setup.py, line 56: the button Sair
ClickSair == PageWrite("Sair", "do_logout", TRUE)

\* simulator_page.py, lines 200-203
InitSimulatorState ==
    /\ "simulation_inputs" \notin DOMAIN session
    /\ check_password(session)
    /\ "do_logout" \in DOMAIN session
    /\ ~session["do_logout"]
    /\ session' = SessionSet(SessionSet(session, "simulation_inputs", "inputs"), "simulation_results", None)
    /\ auth_last' = [op |-> "simulator_page", session |-> session, audit_log |-> audit_log]
    /\ UNCHANGED <<audit_log, verified>>
    /\ UNCHANGED AuthFrame

\* simulator_page.py, lines 235-236
StoreSimulationResults ==
    /\ "simulation_inputs" \in DOMAIN session
    /\ PageWrite("simulator_page", "simulation_results", <<"results">>)

\* user_management_view.py, lines 167, 207 and 252
ConfirmingDeleteUser == \E v \in OptionalId : PageWrite("user_management", "confirming_delete_user", v)

\* team_management_view.py, lines 106, 134 and 153
ConfirmingDeleteTeam == \E v \in OptionalId : PageWrite("team_management", "confirming_delete_team", v)

NextAuth ==
    \/ \E email \in Emails, password \in Passwords : \E lookup \in get_by_email(email) : LoginUser(email, password, lookup)
    \/ SetupPage
    \/ LogoutUser
    \/ ClickSair
    \/ InitSimulatorState
    \/ StoreSimulationResults
    \/ ConfirmingDeleteUser
    \/ ConfirmingDeleteTeam

SpecAuth == InitAuth /\ [][NextAuth]_vars

\* the session operation that ran last was a call of logout_user
LoggedOut == auth_last.op = "logout_user"

\* the last session operation was a call of login_user
LoginAttempted == auth_last.op = "login_user"

\* the users whose stored password is the one the last login supplied
VerifiedUsers == {u \in AuthUsers : auth_last.email # "" /\ auth_last.password # "" /\ auth_last.lookup = "none" /\ u.email = auth_last.email /\ u.password = hash_password(auth_last.password)}

C30_LoginChangesSessionOnlyOnSuccess ==
    /\ check_password(session) => verified
    /\ LoginAttempted =>
           IF VerifiedUsers # {}
           THEN /\ auth_last.ret = <<TRUE, None>>
                /\ \E u \in VerifiedUsers : session = SessionSet(SessionSet(SessionSet(SessionSet(auth_last.session, "authenticated", TRUE), "user_id", u.id), "user_name", u.nome), "user_role", u.role)
           ELSE /\ auth_last.ret[1] = FALSE
                /\ auth_last.ret[2] # None
                /\ session = auth_last.session

\* C30 witness: while Ana is logged in, a login for Bia's e-mail with a
\* wrong password fails; the session is still Ana's.
C30_Witness ==
    /\ LoginAttempted
    /\ auth_last.email = "bia@x"
    /\ auth_last.password = "pa"
    /\ auth_last.lookup = "none"
    /\ auth_last.ret = <<FALSE, <<MsgInvalid>>>>
    /\ check_password(session)
    /\ session["user_id"] = 1
    /\ audit_log[Len(audit_log)] = [action_type |-> "LOGIN_FAILURE", user_id |-> <<2>>]

\* ---------------------------------------------------------------------
\* team_repository.py: the members of a team.  Table users is a function
\* from the user ids to team_id, table teams from the team ids to
\* supervisor_id; both columns are nullable.
\* ---------------------------------------------------------------------

OptionalUser == {None} \cup {<<u>> : u \in UserIds}

\* the arguments of update_members: a team id, one of them of no team, and
\* the ids IN (...) is given, one of them of no user
TeamArgs == TeamIds \cup {MaxTeamId + 1}
MemberIdSets == SUBSET (UserIds \cup {MaxUserId + 1})

\* lines 123-126 without the supervisor's exemption
Unassign_SupervisorToo(users, supervisor_id, team_id) == [u \in DOMAIN users |-> IF users[u] = <<team_id>> THEN None ELSE users[u]]

\* lines 123-126; id != NULL is rendered as id IS NOT NULL
Unassign(users, supervisor_id, team_id) == [u \in DOMAIN users |-> IF users[u] = <<team_id>> /\ <<u>> # supervisor_id THEN None ELSE users[u]]

\* lines 129-130
Assign(users, team_id, member_ids) == IF member_ids # {} THEN [u \in DOMAIN users |-> IF u \in member_ids THEN <<team_id>> ELSE users[u]] ELSE users

\* update_members: the exception raised and table users after the call
update_members(users, teams, team_id, member_ids) ==
    IF team_id \notin DOMAIN teams
    THEN [raised |-> "NoResultFound", users |-> users]
    ELSE [raised |-> "none", users |-> Assign(Unassign(users, teams[team_id], team_id), team_id, member_ids)]

InitTeam ==
    /\ CalcIdle
    /\ manage_args = << >>
    /\ manage_ret = << >>
    /\ session = << >>
    /\ audit_log = << >>
    /\ auth_last = NoOperation
    /\ verified = FALSE
    /\ user_team \in [UserIds -> OptionalTeam]
    /\ team_supervisor \in [TeamIds -> OptionalUser]
    /\ team_last = NoOperation

\* one call of update_members on the tables
UpdateMembers(team_id, member_ids) ==
    LET r == update_members(user_team, team_supervisor, team_id, member_ids)
    IN  /\ team_last = NoOperation
        /\ user_team' = r.users
        /\ team_last' = [op |-> "update_members", team_id |-> team_id, member_ids |-> member_ids, users |-> user_team, raised |-> r.raised]
        /\ UNCHANGED team_supervisor
        /\ UNCHANGED <<simVars, manageVars, authVars>>

NextTeam == \E team_id \in TeamArgs, member_ids \in MemberIdSets : UpdateMembers(team_id, member_ids)

SpecTeam == InitTeam /\ [][NextTeam]_vars

\* update_members has been called
MembersUpdated == team_last.op = "update_members"

\* the users whose team_id is team_id in table users
MembersOf(users, team_id) == {u \in DOMAIN users : users[u] = <<team_id>>}

\* C25: after update_members on an existing team its members are exactly
\* the users listed in member_ids, plus the supervisor if the supervisor
\* was a member before; every other former member has no team; every
\* user who was not a member and is not listed has the team_id of before.
\* On a team that does not exist NoResultFound is raised and table users
\* is as before.
C25_MembershipReplaced ==
    MembersUpdated =>
        LET t == team_last.team_id
            before == team_last.users
            kept == {u \in MembersOf(before, t) : <<u>> = team_supervisor[t]}
        IN  IF t \in DOMAIN team_supervisor
            THEN /\ team_last.raised = "none"
                 /\ MembersOf(user_team, t) = (team_last.member_ids \cap DOMAIN before) \cup kept
                 /\ \A u \in MembersOf(before, t) \ (team_last.member_ids \cup kept) : user_team[u] = None
                 /\ \A u \in DOMAIN before \ (MembersOf(before, t) \cup team_last.member_ids) : user_team[u] = before[u]
            ELSE /\ team_last.raised = "NoResultFound"
                 /\ user_team = before

\* C25 witness: team 1 had its supervisor and user 2 as members; the call
\* lists user 3 of team 2 only: the supervisor stays, user 2 leaves, user 3
\* joins.
C25_Witness ==
    /\ MembersUpdated
    /\ team_last.team_id = 1
    /\ team_supervisor[1] = <<1>>
    /\ team_last.member_ids = {3}
    /\ team_last.users[1] = <<1>> /\ user_team[1] = <<1>>
    /\ team_last.users[2] = <<1>> /\ user_team[2] = None
    /\ team_last.users[3] = <<2>> /\ user_team[3] = <<1>>

\* C23: once can_manage_user has returned, an Admin manager got True, a
\* manager of any role other than Admin and Supervisor got False, and a
\* Supervisor got True only for a different user whose role is neither
\* Admin nor Supervisor and who belongs to a team, the manager's own.
C23_SupervisorOnlyOwnTeam ==
    manage_ret # << >> =>
        LET a == manage_args[1]
            t == a.target_user_data
        IN  /\ a.manager_role = "Admin" => manage_ret[1] = TRUE
            /\ a.manager_role \notin {"Admin", "Supervisor"} => manage_ret[1] = FALSE
            /\ (a.manager_role = "Supervisor" /\ manage_ret[1] = TRUE) =>
                   /\ t.id # a.manager_id
                   /\ t.role \notin {"Admin", "Supervisor"}
                   /\ t.team_id # None
                   /\ t.team_id = a.manager_team_id

====
